---- MODULE Spec2Model ----
(***************************************************************************)
(* Model of the review analyzer: the backend's inference client            *)
(* (query_ollama), its health probe (health_check) and its analysis        *)
(* service (analyze_review) in src/backend/main.py, and the batch UI       *)
(* (check_backend_connection, main, analyze_reviews) in                    *)
(* src/frontend/app.py.                                                    *)
(***************************************************************************)
EXTENDS Integers, Sequences, FiniteSets, TLC

\* ------------------------------------------------------------------ bounds
\* longest text (review text, model completion) that is enumerated
MaxLen == 3
\* largest max_retries argument a direct call of query_ollama is given
MaxRetries == 3
\* largest number of rows of an uploaded batch
MaxBatch == 3

\* ------------------------------------------------------- program constants
\* def query_ollama(prompt, max_retries: int = 3)
DefaultMaxRetries == 3

\* ------------------------------------------------------------------ strings
\* Texts are sequences of characters; one letter, a blank and a line break
\* are enough to tell trimming and line splitting apart.
Char == {"a", " ", "\n"}
Whitespace == {" ", "\n"}
Texts == UNION {[1..n -> Char] : n \in 0..MaxLen}

IsSpace(c) == c \in Whitespace

RECURSIVE PyLStrip(_)
PyLStrip(s) == IF s # <<>> /\ IsSpace(Head(s)) THEN PyLStrip(Tail(s)) ELSE s

RECURSIVE PyRStrip(_)
PyRStrip(s) ==
  IF s # <<>> /\ IsSpace(s[Len(s)]) THEN PyRStrip(SubSeq(s, 1, Len(s) - 1)) ELSE s

\* mutant: only the left end is trimmed
PyStrip_LeftOnly(s) == PyLStrip(s)

\* str.strip(): whitespace removed at both ends
PyStrip(s) == PyRStrip(PyLStrip(s))

\* s.split('\n')[0]: the text before the first line break
RECURSIVE FirstLine(_)
FirstLine(s) ==
  IF s = <<>> \/ Head(s) = "\n" THEN <<>> ELSE <<Head(s)>> \o FirstLine(Tail(s))

\* ------------------------------------------------------------------- values
\* A Python value that is either a str or None.
NoneVal == [isNone |-> TRUE, s |-> <<>>]
Str(t) == [isNone |-> FALSE, s |-> t]

\* HTTPException(status_code, detail); NoErr stands for "nothing raised"
NoErr == [status |-> 0, detail |-> ""]
HTTPException(code, msg) == [status |-> code, detail |-> msg]

\* ------------------------------------------------- the inference server
\* The body of an HTTP response as response.json() sees it: not JSON at all,
\* or an object that has or lacks the field "response" (a string or null).
NotJson == [valid |-> FALSE, has |-> FALSE, val |-> NoneVal]
NoField == [valid |-> TRUE, has |-> FALSE, val |-> NoneVal]
NullField == [valid |-> TRUE, has |-> TRUE, val |-> NoneVal]
Field(t) == [valid |-> TRUE, has |-> TRUE, val |-> Str(t)]
Bodies == {NotJson, NoField, NullField} \cup {Field(t) : t \in Texts}

\* Exceptions requests raises instead of giving a response.  ConnectTimeout
\* derives from both ConnectionError and Timeout.
TransportExc == {"ConnectionError", "ConnectTimeout", "ReadTimeout", "RequestException"}
IsConnectionError(e) == e \in {"ConnectionError", "ConnectTimeout"}
IsTimeout(e) == e \in {"ConnectTimeout", "ReadTimeout"}

\* Status codes of a final response: success, a redirection that is not
\* followed (304, or a 3xx without Location), client error, server error.
OkStatus == {200, 304}
ErrStatus == {404, 500}
Is2xx(st) == st >= 200 /\ st < 300

Exc(e) == [exc |-> e, status |-> 0, body |-> NotJson]
Resp(st, b) == [exc |-> "none", status |-> st, body |-> b]

\* What one requests.post to /api/generate can come back with.  The body of
\* an error response is never read.
PostOutcomes ==
  {Exc(e) : e \in TransportExc}
    \cup {Resp(st, NotJson) : st \in ErrStatus}
    \cup {Resp(st, b) : st \in OkStatus, b \in Bodies}

\* response.raise_for_status(): HTTPError for 4xx and 5xx, nothing otherwise
RaisesForStatus(st) == st >= 400 /\ st < 600

\* mutant: the wrong key is read, so the default is always taken
DictGet_WrongKey(b, default) == Str(default)

\* result.get("response", ""): the field's value, or the default
DictGet(b, default) == IF b.has THEN b.val ELSE Str(default)

Raise(e) == [exc |-> e, val |-> NoneVal]
Return(v) == [exc |-> "none", val |-> v]

\* The try body of query_ollama for one attempt: the exception it raises
\* or the value it returns.
TryBody(o) ==
  IF o.exc # "none" THEN Raise(o.exc)
  ELSE IF RaisesForStatus(o.status) THEN Raise("HTTPError")
  ELSE IF ~o.body.valid THEN Raise("JSONDecodeError")
  ELSE LET v == DictGet(o.body, <<>>)
       IN IF v.isNone THEN Raise("AttributeError") ELSE Return(Str(PyStrip(v.s)))

\* The except clauses of query_ollama, in their order: the HTTPException the
\* matching clause raises on the last attempt.
ExceptClause(e) ==
  IF IsConnectionError(e)
  THEN HTTPException(503, "Cannot connect to Ollama. Make sure Ollama is running on localhost:11434")
  ELSE IF IsTimeout(e)
  THEN HTTPException(504, "Ollama request timed out. Please try again.")
  ELSE HTTPException(500, "Error processing request with AI model")

\* mutant: off by one, the last attempt is not recognised
IsLastAttempt_OffByOne(a, n) == a = n

\* if attempt == max_retries - 1
IsLastAttempt(a, n) == a = n - 1

\* ------------------------------------------------------------------- state
VARIABLES
  max_retries,  \* query_ollama: its max_retries argument
  attempt,      \* query_ollama: the loop variable
  posts,        \* query_ollama: POSTs issued by the current call
  qlog,         \* query_ollama: per attempt, the exception raised or "none"
  last,         \* query_ollama: what the latest POST came back with
  qstate,       \* query_ollama: "idle", "running", "returned", "raised"
  qret,         \* query_ollama: the value returned
  qerr,         \* query_ollama: the HTTPException raised
  net,          \* requests sent to the inference server so far
  text,         \* analyze_review: its text argument
  apc,          \* analyze_review: "idle", the kind being queried, "returned", "raised"
  a_calls,      \* analyze_review: the query_ollama calls made, in order
  a_out,        \* analyze_review: how each finished call ended
  a_vals,       \* analyze_review: the values the finished calls returned
  aresult,      \* analyze_review: the record returned
  aerr,         \* analyze_review: the HTTPException raised
  probe,        \* health_check: what its GET /api/tags came back with
  health,       \* health_check: what it returned
  health_http,  \* check_backend_connection: what its GET /health came back with
  fpc,          \* main: "start", "blocked", "ready", "loop", "done", "aborted"
  total_reviews, \* analyze_reviews: len(df)
  idx,          \* analyze_reviews: the index of the row being processed
  requests,     \* analyze_reviews: the rows an analyze request was sent for
  outcomes,     \* analyze_reviews: what each analyze request came back with
  results,      \* analyze_reviews: the rows appended to results
  reported      \* analyze_reviews: the rows an error was shown for

qvars == <<max_retries, attempt, posts, qlog, last, qstate, qret, qerr, net>>
avars == <<text, apc, a_calls, a_out, a_vals, aresult, aerr>>
fvars == <<probe, health, health_http, fpc, total_reviews, idx, requests, outcomes,
           results, reported>>
vars == <<qvars, avars, fvars>>

\* ------------------------------------------------------------ query_ollama
QIdle ==
  /\ max_retries = 0
  /\ attempt = 0
  /\ posts = 0
  /\ qlog = <<>>
  /\ last = Exc("none")
  /\ qstate = "idle"
  /\ qret = NoneVal
  /\ qerr = NoErr

\* entry of query_ollama(prompt, n)
QEnter(n) ==
  /\ max_retries' = n
  /\ attempt' = 0
  /\ posts' = 0
  /\ qlog' = <<>>
  /\ last' = Exc("none")
  /\ qstate' = "running"
  /\ qret' = NoneVal
  /\ qerr' = NoErr

\* one iteration of "for attempt in range(max_retries)", the POST coming
\* back with one of `answers`
QIteration(answers) ==
  /\ qstate = "running"
  /\ attempt < max_retries
  /\ \E o \in answers :
       LET r == TryBody(o) IN
       /\ posts' = posts + 1
       /\ net' = net + 1
       /\ last' = o
       /\ qlog' = Append(qlog, r.exc)
       /\ IF r.exc = "none"
          THEN /\ qstate' = "returned"
               /\ qret' = r.val
               /\ qerr' = qerr
               /\ attempt' = attempt
          ELSE IF IsLastAttempt(attempt, max_retries)
          THEN /\ qstate' = "raised"
               /\ qerr' = ExceptClause(r.exc)
               /\ qret' = qret
               /\ attempt' = attempt
          ELSE /\ attempt' = attempt + 1
               /\ UNCHANGED <<qstate, qret, qerr>>
  /\ UNCHANGED max_retries

\* the loop is exhausted and the function ends without a return statement
QLoopEnd ==
  /\ qstate = "running"
  /\ attempt >= max_retries
  /\ qstate' = "returned"
  /\ qret' = NoneVal
  /\ UNCHANGED <<max_retries, attempt, posts, qlog, last, qerr, net>>

\* ----------------------------------------------------------- analyze_review
NoRecord == [isNone |-> TRUE, sentiment |-> <<>>, topic |-> <<>>, summary |-> <<>>]
Kinds == <<"sentiment", "topic", "summary">>

AIdle ==
  /\ text = <<>>
  /\ apc = "idle"
  /\ a_calls = <<>>
  /\ a_out = <<>>
  /\ a_vals = <<>>
  /\ aresult = NoRecord
  /\ aerr = NoErr

\* ------------------------------------------------------------ health_check
\* What the GET to the inference server's /api/tags can come back with.
ProbeOutcomes ==
  {Exc(e) : e \in TransportExc} \cup {Resp(st, NotJson) : st \in OkStatus \cup ErrStatus}

NotCalled == [raised |-> FALSE, status |-> "none"]
Healthy == [raised |-> FALSE, status |-> "healthy"]
Unhealthy == [raised |-> FALSE, status |-> "unhealthy"]
Propagated == [raised |-> TRUE, status |-> "none"]

\* mutant: only a refused connection is caught
health_check_CatchesRefusalOnly(p) ==
  IF p.exc = "ConnectionError" THEN Unhealthy
  ELSE IF p.exc # "none" \/ RaisesForStatus(p.status) THEN Propagated
  ELSE Healthy

\* health_check(): try the probe, and a bare except for whatever it raises
health_check(p) ==
  IF p.exc # "none" \/ RaisesForStatus(p.status) THEN Unhealthy ELSE Healthy

\* ------------------------------------------------------------- the batch UI
\* What the POST to the backend's /analyze/ can come back with: an exception
\* of requests, or a response with a status and a body that holds the three
\* fields or does not.
AnswerOutcomes ==
  {[exc |-> e, status |-> 0, wellformed |-> FALSE] : e \in {"Timeout", "ConnectionError"}}
    \cup {[exc |-> "none", status |-> st, wellformed |-> FALSE] : st \in {400, 500, 503, 504}}
    \cup {[exc |-> "none", status |-> 200, wellformed |-> w] : w \in BOOLEAN}

FIdle ==
  /\ probe = Exc("none")
  /\ health = NotCalled
  /\ health_http = Exc("none")
  /\ fpc = "start"
  /\ total_reviews = 0
  /\ idx = 0
  /\ requests = <<>>
  /\ outcomes = <<>>
  /\ results = <<>>
  /\ reported = <<>>

\* The backend's answer to GET /health: the handler's return value is sent
\* with status 200, an exception escaping it with status 500.
HealthResponse(h) == Resp(IF h.raised THEN 500 ELSE 200, NotJson)

\* check_backend_connection(): response.status_code == 200, False on any
\* exception
check_backend_connection(r) == r.exc = "none" /\ r.status = 200

\* mutant: a timeout of one request ends the batch
RowHandled_TimeoutEscapes(o) == o.exc # "Timeout"

\* the try block around one row catches Timeout and every other Exception
RowHandled(o) == TRUE

\* mutant: the status is not looked at
RowSucceeded_AnyStatus(o) == o.exc = "none" /\ o.wellformed

\* a row is appended to results when the response has status 200 and its
\* JSON body holds sentiment, topic and summary
RowSucceeded(o) == o.exc = "none" /\ o.status = 200 /\ o.wellformed

\* main() up to the file upload: the backend is unreachable, or it runs
\* health_check and answers
Main ==
  /\ fpc = "start"
  /\ \/ /\ \E e \in TransportExc : health_http' = Exc(e)
        /\ UNCHANGED <<probe, health>>
     \/ \E p \in ProbeOutcomes :
          /\ probe' = p
          /\ health' = health_check(p)
          /\ health_http' = HealthResponse(health_check(p))
  /\ fpc' = IF check_backend_connection(health_http') THEN "ready" ELSE "blocked"
  /\ UNCHANGED <<total_reviews, idx, requests, outcomes, results, reported>>
  /\ UNCHANGED <<qvars, avars>>

\* main() from the upload to the call of analyze_reviews(df): a file with
\* the required columns is there and the button is pressed
AnalyzeReviews ==
  /\ fpc = "ready"
  /\ \E n \in 0..MaxBatch : total_reviews' = n
  /\ fpc' = "loop"
  /\ idx' = 0
  /\ requests' = <<>>
  /\ outcomes' = <<>>
  /\ results' = <<>>
  /\ reported' = <<>>
  /\ UNCHANGED <<probe, health, health_http>>
  /\ UNCHANGED <<qvars, avars>>

\* one iteration of "for idx, row in df.iterrows()"
AnalyzeRow ==
  /\ fpc = "loop"
  /\ idx < total_reviews
  /\ \E o \in AnswerOutcomes :
       /\ requests' = Append(requests, idx)
       /\ outcomes' = Append(outcomes, o)
       /\ results' = IF RowSucceeded(o) THEN Append(results, idx) ELSE results
       /\ IF RowHandled(o)
          THEN /\ reported' = IF RowSucceeded(o) THEN reported ELSE Append(reported, idx)
               /\ idx' = idx + 1
               /\ fpc' = fpc
          ELSE /\ fpc' = "aborted"
               /\ UNCHANGED <<reported, idx>>
  /\ UNCHANGED <<probe, health, health_http, total_reviews>>
  /\ UNCHANGED <<qvars, avars>>

\* the loop is over: the results are shown
BatchEnd ==
  /\ fpc = "loop"
  /\ idx >= total_reviews
  /\ fpc' = "done"
  /\ UNCHANGED <<probe, health, health_http, total_reviews, idx, requests, outcomes,
                 results, reported>>
  /\ UNCHANGED <<qvars, avars>>

InitFront == QIdle /\ net = 0 /\ AIdle /\ FIdle
NextFront == Main \/ AnalyzeReviews \/ AnalyzeRow \/ BatchEnd
SpecFront == InitFront /\ [][NextFront]_vars

\* a direct call of query_ollama with any max_retries
QueryOllama ==
  /\ qstate = "idle"
  /\ \E n \in 0..MaxRetries : QEnter(n)
  /\ UNCHANGED <<net, avars, fvars>>

QAttempt == QIteration(PostOutcomes) /\ UNCHANGED <<avars, fvars>>

QFallOff == QLoopEnd /\ UNCHANGED <<avars, fvars>>

InitQuery == QIdle /\ net = 0 /\ AIdle /\ FIdle
NextQuery == QueryOllama \/ QAttempt \/ QFallOff
SpecQuery == InitQuery /\ [][NextQuery]_vars

\* the review texts analyze_review is given
MaxReviewLen == 2
ReviewTexts == UNION {[1..n -> Char] : n \in 0..MaxReviewLen}

\* The completions the inference server answers a prompt with: empty, one
\* word, a word after a line break, a word with an explanation on the next
\* line, a padded word.
Completions ==
  {<<>>, <<"a">>, <<"\n", "a">>, <<"a", "\n", "a">>, <<" ", "a", " ">>}
AnalyzeOutcomes ==
  {Exc(e) : e \in TransportExc}
    \cup {Resp(st, NotJson) : st \in ErrStatus}
    \cup {Resp(st, b) : st \in OkStatus,
                        b \in {NotJson, NoField, NullField} \cup {Field(t) : t \in Completions}}

\* mutant: only the empty string is rejected
IsBlank_NoStrip(t) == t = <<>>

\* if not text.strip()
IsBlank(t) == PyStrip(t) = <<>>

\* mutant: a failed call is swallowed and the next call is made
CallAborts_Swallowed(st) == FALSE

\* a call that raised leaves the try block at once
CallAborts(st) == st = "raised"

\* mutant: the error is wrapped like an unexpected one
Reraise_Wrapped(e) == HTTPException(500, "Internal server error")

\* except HTTPException: raise
Reraise(e) == e

\* x.split('\n')[0].strip()
Clean(x) == PyStrip(FirstLine(x))

\* analyze_review(text) up to its first query_ollama call
AnalyzeReview ==
  /\ apc = "idle"
  /\ qstate = "idle"
  /\ \E t \in ReviewTexts :
       /\ text' = t
       /\ IF IsBlank(t)
          THEN /\ apc' = "raised"
               /\ aerr' = HTTPException(400, "Review text cannot be empty")
               /\ UNCHANGED <<qvars, a_calls>>
          ELSE /\ apc' = Kinds[1]
               /\ a_calls' = <<Kinds[1]>>
               /\ QEnter(DefaultMaxRetries)
               /\ UNCHANGED <<net, aerr>>
  /\ UNCHANGED <<a_out, a_vals, aresult, fvars>>

\* analyze_review from the end of one query_ollama call to the next call,
\* or to its own end
AnalyzeContinue ==
  /\ apc \in {Kinds[i] : i \in 1..3}
  /\ qstate \in {"returned", "raised"}
  /\ a_out' = Append(a_out, qstate)
  /\ IF CallAborts(qstate)
     THEN /\ apc' = "raised"
          /\ aerr' = Reraise(qerr)
          /\ UNCHANGED <<qvars, a_calls, a_vals, aresult>>
     ELSE LET vals == Append(a_vals, qret) IN
          /\ a_vals' = vals
          /\ IF Len(vals) < 3
             THEN /\ apc' = Kinds[Len(vals) + 1]
                  /\ a_calls' = Append(a_calls, Kinds[Len(vals) + 1])
                  /\ QEnter(DefaultMaxRetries)
                  /\ UNCHANGED <<net, aresult, aerr>>
             ELSE /\ IF \E i \in 1..3 : vals[i].isNone
                     THEN \* None has no split: except Exception
                          /\ apc' = "raised"
                          /\ aerr' = HTTPException(500, "Internal server error")
                          /\ aresult' = aresult
                     ELSE /\ apc' = "returned"
                          /\ aresult' = [isNone |-> FALSE,
                                         sentiment |-> Clean(vals[1].s),
                                         topic |-> Clean(vals[2].s),
                                         summary |-> Clean(vals[3].s)]
                          /\ aerr' = aerr
                  /\ UNCHANGED <<qvars, a_calls>>
  /\ UNCHANGED <<text, fvars>>

AQAttempt == QIteration(AnalyzeOutcomes) /\ UNCHANGED <<avars, fvars>>

InitAnalyze == QIdle /\ net = 0 /\ AIdle /\ FIdle
NextAnalyze == AnalyzeReview \/ AQAttempt \/ AnalyzeContinue
SpecAnalyze == InitAnalyze /\ [][NextAnalyze]_vars

\* ------------------------------------------------ properties of query_ollama
Terminal == qstate \in {"returned", "raised"}
Attempts == 1..Len(qlog)
\* the completion text the latest response carried
ReceivedText == IF last.body.has /\ ~last.body.val.isNone THEN last.body.val.s ELSE <<>>
Succeeded == qstate = "returned" /\ qlog # <<>> /\ qlog[Len(qlog)] = "none"

\* r is t without the whitespace at its two ends
IsTrimOf(r, t) ==
  /\ r # <<>> => ~IsSpace(r[1]) /\ ~IsSpace(r[Len(r)])
  /\ \E i \in 0..Len(t) :
       /\ i + Len(r) <= Len(t)
       /\ SubSeq(t, i + 1, i + Len(r)) = r
       /\ \A k \in 1..Len(t) : (k <= i \/ k > i + Len(r)) => IsSpace(t[k])

\* After failures of one kind only the call is either still retrying, with
\* no error surfaced, or has made max_retries attempts and raised `code`.
RetriesThenRaises(code) ==
  \/ /\ qstate = "running"
     /\ posts < max_retries
     /\ attempt = posts
     /\ qerr = NoErr
  \/ /\ qstate = "raised"
     /\ posts = max_retries
     /\ qerr.status = code

\* C2 as stated: for max_retries >= 1, attempts that all fail with
\* connection-refused are retried exactly max_retries times and end in
\* Unreachable (503), and attempts that all time out are retried exactly
\* max_retries times and end in TimedOut (504); no error before the last.
C2_AsStated ==
  (max_retries >= 1 /\ qlog # <<>>) =>
    /\ (\A i \in Attempts : qlog[i] = "ConnectionError") => RetriesThenRaises(503)
    /\ (\A i \in Attempts : IsTimeout(qlog[i])) => RetriesThenRaises(504)

\* C2 amended: the same, where "times out" is a timeout after the connection
\* was made (ReadTimeout); attempts that all fail to connect, by refusal or
\* by a timeout while connecting, end in Unreachable (503).
C2_RetryExhaustion ==
  (max_retries >= 1 /\ qlog # <<>>) =>
    /\ (\A i \in Attempts : IsConnectionError(qlog[i])) => RetriesThenRaises(503)
    /\ (\A i \in Attempts : qlog[i] = "ReadTimeout") => RetriesThenRaises(504)

\* C2 witness: three read timeouts, then 504 on the third attempt
C2_Witness ==
  /\ max_retries = 3
  /\ qlog = <<"ReadTimeout", "ReadTimeout", "ReadTimeout">>
  /\ qstate = "raised"
  /\ posts = 3
  /\ qerr.status = 504

\* C3: when attempts 1..N-1 fail and attempt N succeeds (N <= max_retries),
\* query_ollama returns the value of attempt N's response (also an empty one
\* or one without the field), raises nothing and has issued exactly N
\* attempts; a success is always the last attempt.
C3_SuccessEndsRetries ==
  /\ \A i \in Attempts : qlog[i] = "none" => (i = Len(qlog) /\ qstate = "returned")
  /\ Succeeded =>
       /\ posts = Len(qlog)
       /\ posts <= max_retries
       /\ attempt = posts - 1
       /\ qerr = NoErr
       /\ ~qret.isNone
       /\ IsTrimOf(qret.s, ReceivedText)

\* C3 witness: a refusal, a timeout, then a success on the third attempt
C3_Witness ==
  /\ qlog = <<"ConnectionError", "ReadTimeout", "none">>
  /\ qstate = "returned"
  /\ posts = 3
  /\ qret = Str(<<"a">>)
  /\ ReceivedText = <<"a">>

\* C5 as stated: a successful attempt returns the response text exactly as
\* received, untrimmed, and the empty string when the field is missing.
C5_AsStated ==
  Succeeded => qret = Str(ReceivedText)

\* C5 amended: a successful attempt returns the response text with the
\* whitespace and line breaks at its two ends removed, and the empty string
\* when the field is missing.
C5_ReturnsTrimmed ==
  Succeeded =>
    /\ ~qret.isNone
    /\ last.body.has => IsTrimOf(qret.s, last.body.val.s)
    /\ ~last.body.has => qret.s = <<>>

\* C5 witness: a response padded on both sides comes back trimmed
C5_Witness ==
  /\ Succeeded
  /\ last.body = Field(<<" ", "a", "\n">>)
  /\ qret = Str(<<"a">>)

\* C9 as stated: for every max_retries, 0 included, a finished call has
\* returned a string or raised one of Unreachable, TimedOut, ModelError.
C9_AsStated ==
  Terminal =>
    \/ qstate = "returned" /\ ~qret.isNone /\ qerr = NoErr
    \/ qstate = "raised" /\ qerr.status \in {503, 504, 500}

\* --------------------------------------------- properties of analyze_review
\* the k-th query_ollama call of this analysis ended by raising
CallFailed(k) ==
  \/ k <= Len(a_out) /\ a_out[k] = "raised"
  \/ k = Len(a_calls) /\ k > Len(a_out) /\ qstate = "raised"

\* C1: a {sentiment, topic, summary} record is returned only when the three
\* query_ollama calls were made in order and all returned; once the k-th
\* call has failed no record is returned and no later call is made.
C1_AllOrNothing ==
  /\ ~aresult.isNone =>
       /\ apc = "returned"
       /\ a_calls = Kinds
       /\ a_out = <<"returned", "returned", "returned">>
       /\ \A i \in 1..3 : ~a_vals[i].isNone
  /\ apc = "returned" => ~aresult.isNone
  /\ \A k \in 1..Len(a_calls) :
       CallFailed(k) =>
         /\ Len(a_calls) = k
         /\ aresult.isNone
         /\ apc \in {Kinds[k], "raised"}
         /\ Len(a_vals) = k - 1

\* C1 witness: sentiment returned, topic failed, the analysis has ended
C1_Witness ==
  /\ apc = "raised"
  /\ a_out = <<"returned", "raised">>
  /\ a_calls = <<"sentiment", "topic">>
  /\ aresult.isNone

\* C4: a text that is empty or all whitespace is rejected with status 400,
\* no query_ollama call is made and no request reaches the inference server.
C4_EmptyInputRejected ==
  (apc # "idle" /\ \A i \in 1..Len(text) : text[i] \in Whitespace) =>
    /\ apc = "raised"
    /\ aerr.status = 400
    /\ net = 0
    /\ a_calls = <<>>
    /\ qstate = "idle"
    /\ aresult.isNone

\* C4 witness: a text of a blank and a line break was rejected
C4_Witness ==
  /\ text = <<" ", "\n">>
  /\ apc = "raised"
  /\ aerr.status = 400
  /\ net = 0

\* C8: when a query_ollama call raises Unreachable, TimedOut or ModelError,
\* analyze_review raises that very error: same status, same detail.
C8_ErrorUnchanged ==
  (apc = "raised" /\ a_calls # <<>>) =>
    /\ qstate = "raised"
    /\ aerr = qerr
    /\ aerr = ExceptClause(qlog[Len(qlog)])
    /\ aerr.status \in {503, 504, 500}

\* C8 witness: the topic call timed out and the analysis raised 504
C8_Witness ==
  /\ apc = "raised"
  /\ a_calls = <<"sentiment", "topic">>
  /\ qerr.status = 504
  /\ aerr = HTTPException(504, "Ollama request timed out. Please try again.")

\* ------------------------------------------------- properties of the batch UI
\* C6 as stated: health_check never raises; a refused connection, a timeout,
\* a non-2xx status or any other exception gives unhealthy, and healthy is
\* returned only for a 2xx response.
C6_AsStated ==
  /\ ~health.raised
  /\ health.status # "none" =>
       /\ (probe.exc # "none" \/ ~Is2xx(probe.status)) => health.status = "unhealthy"
       /\ health.status = "healthy" => (probe.exc = "none" /\ Is2xx(probe.status))

\* C6 amended: health_check never raises; a refused connection, a timeout,
\* a 4xx or 5xx status or any other exception gives unhealthy, and healthy
\* is returned only for a response whose status is below 400.
C6_NeverRaises ==
  /\ ~health.raised
  /\ health.status # "none" =>
       /\ (probe.exc # "none" \/ probe.status >= 400) => health.status = "unhealthy"
       /\ health.status = "healthy" =>
            (probe.exc = "none" /\ probe.status >= 200 /\ probe.status < 400)

\* C6 witness: the probe timed out and health_check returned unhealthy
C6_Witness ==
  /\ probe = Exc("ReadTimeout")
  /\ health = Unhealthy
  /\ health_http.status = 200

\* C7: whatever earlier rows came back with, one analyze request is sent
\* for every row, in batch order, and the results hold exactly the rows
\* whose request succeeded, once each, in batch order.
C7_BatchNotAborted ==
  /\ fpc # "aborted"
  /\ Len(requests) = idx
  /\ Len(outcomes) = idx
  /\ \A i \in 1..Len(requests) : requests[i] = i - 1
  /\ fpc = "done" => idx = total_reviews
  /\ \A i \in 1..Len(results) :
       /\ results[i] \in 0..(idx - 1)
       /\ LET o == outcomes[results[i] + 1]
          IN o.exc = "none" /\ o.status = 200 /\ o.wellformed
       /\ \A j \in 1..Len(results) : i < j => results[i] < results[j]
  /\ \A r \in 0..(idx - 1) :
       LET o == outcomes[r + 1]
       IN (o.exc = "none" /\ o.status = 200 /\ o.wellformed) =>
            \E i \in 1..Len(results) : results[i] = r

\* C7 witness: the first row timed out, the second got a 503, the third
\* succeeded and is the only result
C7_Witness ==
  /\ fpc = "done"
  /\ total_reviews = 3
  /\ outcomes[1].exc = "Timeout"
  /\ outcomes[2].status = 503
  /\ requests = <<0, 1, 2>>
  /\ results = <<2>>

\* C10 as stated: when health_check reports unhealthy the batch UI sends no
\* analyze request; it analyses only after a healthy report.
C10_AsStated ==
  requests # <<>> => health = Healthy

====
